---- MODULE Spec2Model ----
(***************************************************************************)
(* Model of src/sp500_strategy.py: the two cached data providers           *)
(* (get_market_data, get_fear_and_greed_index, both wrapped by             *)
(* st.cache_data(ttl=3600)) and the script run main(), which fetches the   *)
(* price history, guards the empty frame, fetches the sentiment reading,   *)
(* computes the metrics and renders the BUY / HOLD recommendation.         *)
(*                                                                         *)
(* Values.  A DataFrame is the sequence of its rows, each row the record   *)
(* [High, Close] of the two columns main() reads.  A Python value is a     *)
(* tagged record (PyInt, PyStr) so that isinstance(x, int) is a test of    *)
(* the tag.  drawdown_percent is kept as the exact fraction num/den        *)
(* (den > 0); the comparisons the code makes on the float are made on the  *)
(* fraction.  The user-facing Chinese strings are written as ASCII names:  *)
(* "zh_extreme_fear" for the translation of "extreme fear",                *)
(* "fetch_failed" / "process_failed" for the two failure labels.           *)
(***************************************************************************)
EXTENDS Integers, Sequences, FiniteSets, TLC

VARIABLES
    now,                \* wall clock, seconds
    cache_market,       \* st.cache_data store of get_market_data, by argument
    cache_fg,           \* st.cache_data store of get_fear_and_greed_index
    pc,                 \* position of the script run
    status,             \* how the last script run ended
    ticker_symbol,      \* sidebar selection
    drawdown_threshold, \* sidebar slider
    src,                \* what the market source did on this run's fetch
    market_fetched,     \* times the body of get_market_data ran in this run
    fg_called,          \* get_fear_and_greed_index was called in this run
    fg_fetched,         \* times its body ran in this run
    fg_payload,         \* what the HTTP request of its body met in this run
    hist,
    fg_score,
    fg_rating,
    all_time_high,
    current_price,
    drawdown_percent,
    action,             \* "BUY" (st.success) / "HOLD" (st.warning) / "none"
    reasons             \* the messages rendered, in order

vars == <<now, cache_market, cache_fg, pc, status, ticker_symbol,
          drawdown_threshold, src, market_fetched, fg_called, fg_fetched,
          fg_payload, hist, fg_score, fg_rating, all_time_high, current_price,
          drawdown_percent, action, reasons>>

runOutputs == <<hist, fg_score, fg_rating, all_time_high, current_price,
                drawdown_percent, action, reasons>>

---------------------------------------------------------------------------
(* Bounds and program constants *)

TTL == 3600

MaxLen == 2

MaxTicks == 2

Symbols == {"^GSPC", "^IXIC", "^DJI"}

Thresholds == {5, 10, 30}

FearLimit == 25

---------------------------------------------------------------------------
(* Python values *)

PyInt(n) == [tag |-> "int", n |-> n, s |-> ""]

PyStr(x) == [tag |-> "str", n |-> 0, s |-> x]

PyNone == [tag |-> "none", n |-> 0, s |-> ""]

isinstance_int(v) == v.tag = "int"

NA == PyStr("N/A")

---------------------------------------------------------------------------
(* st.cache_data(ttl=3600): one in-memory store per decorated function,    *)
(* keyed by the call's arguments.  An entry is served while less than ttl  *)
(* seconds have passed since it was stored; nothing is stored when the     *)
(* function raises.                                                        *)

NoFrame == << >>

NoMarketEntry == [present |-> FALSE, value |-> NoFrame, stored |-> 0]

NoReading == [score |-> PyNone, rating |-> PyNone]

NoFgEntry == [present |-> FALSE, value |-> NoReading, stored |-> 0]

FreshAlways(e, t) == e.present

Fresh(e, t) == e.present /\ t - e.stored < TTL

StoreUnlessFailure(v, t, failed) ==
    IF failed THEN [present |-> FALSE, value |-> v, stored |-> 0]
    ELSE [present |-> TRUE, value |-> v, stored |-> t]

Store(v, t, failed) == [present |-> TRUE, value |-> v, stored |-> t]

ClearedMarket == [s \in Symbols |-> NoMarketEntry]

---------------------------------------------------------------------------
(* get_market_data: yf.Ticker(symbol).history(period="max") *)

Rows == {[High |-> 10, Close |-> 9], [High |-> 9, Close |-> 10],
         [High |-> 8, Close |-> 8]}

Frames == UNION {[1..k -> Rows] : k \in 0..MaxLen}

\* What the market-data source does on one request, and what the library
\* makes of a failure: it either swallows it into an empty frame or lets an
\* exception out (lib_raises).
MarketOutcomes(frames) ==
    {[src |-> "ok", rows |-> f, lib_raises |-> FALSE] : f \in frames \ {NoFrame}}
    \cup {[src |-> c, rows |-> NoFrame, lib_raises |-> r] :
            c \in {"no_data", "unreachable"}, r \in BOOLEAN}

yf_history(o) == [raised |-> o.lib_raises, value |-> o.rows]

\* The body has no try/except: what history() returns is returned, what it
\* raises propagates.
get_market_data(o) == yf_history(o)

empty(frame) == Len(frame) = 0

---------------------------------------------------------------------------
(* get_fear_and_greed_index *)

JMissing == [tag |-> "missing", n |-> 0, s |-> ""]

JNull == [tag |-> "null", n |-> 0, s |-> ""]

\* a JSON number, in tenths: JNum10(259) is 25.9
JNum10(n) == [tag |-> "num", n |-> n, s |-> ""]

JStr(x) == [tag |-> "str", n |-> 0, s |-> x]

Payload(h, shape, score, rating) ==
    [http |-> h, shape |-> shape, score |-> score, rating |-> rating]

OkPayload(score, rating) == Payload("ok", "fg", score, rating)

ScoreSamples == {JNum10(200), JNum10(250), JNum10(259), JNum10(260),
                 JNum10(1010), JNum10(-15), JStr("20"), JStr("45.7"),
                 JNull, JMissing}

RatingSamples == {JStr("extreme fear"), JStr("Extreme Fear"), JStr("fear"),
                  JStr("neutral"), JStr("greed"), JStr("extreme greed"),
                  JStr("panic"), JNull, JMissing}

HttpFailures == {"network_error", "http_error", "bad_json", "bad_json_legacy"}

FailedPayloads ==
    {Payload(h, "none", JMissing, JMissing) : h \in HttpFailures}
    \cup {Payload("ok", "no_fg", JMissing, JMissing)}

Payloads ==
    FailedPayloads
    \cup {OkPayload(sc, JStr("greed")) : sc \in ScoreSamples}
    \cup {OkPayload(JNum10(200), r) : r \in RatingSamples}

\* int(x) of a JSON number or string: [ok, n]; ok = FALSE is the ValueError /
\* TypeError.  A float is truncated toward zero.
IntLiteral == ("20" :> 20) @@ ("101" :> 101)

py_int_floor(j) ==
    IF j.tag = "num" THEN [ok |-> TRUE, n |-> j.n \div 10]
    ELSE IF j.tag = "str" /\ j.s \in DOMAIN IntLiteral
         THEN [ok |-> TRUE, n |-> IntLiteral[j.s]]
         ELSE [ok |-> FALSE, n |-> 0]

py_int(j) ==
    IF j.tag = "num"
    THEN [ok |-> TRUE, n |-> IF j.n >= 0 THEN j.n \div 10 ELSE -((-j.n) \div 10)]
    ELSE IF j.tag = "str" /\ j.s \in DOMAIN IntLiteral
         THEN [ok |-> TRUE, n |-> IntLiteral[j.s]]
         ELSE [ok |-> FALSE, n |-> 0]

LowerOf == ("Extreme Fear" :> "extreme fear")

lower(x) == IF x \in DOMAIN LowerOf THEN LowerOf[x] ELSE x

translations ==
    ("extreme fear" :> "zh_extreme_fear") @@ ("fear" :> "zh_fear")
    @@ ("neutral" :> "zh_neutral") @@ ("greed" :> "zh_greed")
    @@ ("extreme greed" :> "zh_extreme_greed")

dict_get(d, k, default) == IF k \in DOMAIN d THEN d[k] ELSE default

FetchFailed == [score |-> NA, rating |-> PyStr("fetch_failed")]

ProcessFailed == [score |-> NA, rating |-> PyStr("process_failed")]

Unavailable(r) == r \in {FetchFailed, ProcessFailed}

\* The try block, statement by statement, and the two handlers.
get_fear_and_greed_index(p) ==
    IF p.http \in {"network_error", "http_error", "bad_json"}
    THEN FetchFailed                  \* except RequestException
    ELSE IF \/ p.http = "bad_json_legacy"         \* ValueError from json()
            \/ p.shape # "fg"                     \* KeyError / TypeError
            \/ p.score.tag = "missing"            \* KeyError
            \/ ~py_int(p.score).ok                \* ValueError / TypeError
            \/ p.rating.tag = "missing"           \* KeyError
            \/ p.rating.tag # "str"               \* AttributeError on .lower()
    THEN ProcessFailed                \* except Exception
    ELSE [score  |-> PyInt(py_int(p.score).n),
          rating |-> PyStr(dict_get(translations, lower(p.rating.s), p.rating.s))]

---------------------------------------------------------------------------
(* main(): metrics and decision *)

\* hist is None or hist.empty
HistGuardOff(h) == FALSE

HistUnusable(h) == empty(h)

FirstHigh(h) == h[1].High

\* hist['High'].max()
MaxHigh(h) ==
    CHOOSE m \in {h[i].High : i \in 1..Len(h)} :
        \A i \in 1..Len(h) : h[i].High >= m => h[i].High = m

\* hist['Close'].iloc[-1]
LastClose(h) == h[Len(h)].Close

\* (all_time_high - current_price) / all_time_high * 100, as a fraction
Drawdown(ath, cur) == [num |-> (ath - cur) * 100, den |-> ath]

\* hist['Close'].iloc[-2] exists
HasPreviousClose(h) == Len(h) >= 2

is_drawdown_met_strict(dd, thr) == dd.num > thr * dd.den

is_drawdown_met(dd, thr) == dd.num >= thr * dd.den

is_extreme_fear_untyped(score) == score.n <= FearLimit

is_extreme_fear(score) == isinstance_int(score) /\ score.n <= FearLimit

Msg(m, a) == [msg |-> m, arg |-> a]

\* the if / elif / else of the recommendation container
Recommendation(dd, thr, score, rating) ==
    IF is_drawdown_met(dd, thr)
    THEN [action  |-> "BUY",
          reasons |-> <<Msg("drawdown_met", "")>>
                      \o (IF is_extreme_fear(score)
                          THEN <<Msg("extra_extreme_fear", "")>> ELSE << >>)]
    ELSE IF is_extreme_fear(score)
    THEN [action |-> "BUY", reasons |-> <<Msg("extreme_fear", "")>>]
    ELSE [action  |-> "HOLD",
          reasons |-> <<Msg("below_threshold", ""),
                        Msg("current_sentiment", rating.s)>>]

---------------------------------------------------------------------------
(* The state machine *)

NoPayload == Payload("none", "none", JMissing, JMissing)

NoDrawdown == [num |-> 0, den |-> 1]

Init ==
    /\ now = 0
    /\ cache_market = ClearedMarket
    /\ cache_fg = NoFgEntry
    /\ pc = "idle"
    /\ status = "none"
    /\ ticker_symbol = "^GSPC"
    /\ drawdown_threshold = 10
    /\ src = "none"
    /\ market_fetched = 0
    /\ fg_called = FALSE
    /\ fg_fetched = 0
    /\ fg_payload = NoPayload
    /\ hist = NoFrame
    /\ fg_score = PyNone
    /\ fg_rating = PyNone
    /\ all_time_high = 0
    /\ current_price = 0
    /\ drawdown_percent = NoDrawdown
    /\ action = "none"
    /\ reasons = << >>

\* A script run begins: the sidebar widgets are read; a pressed button clears
\* every cache and reruns the script, which is the run that goes on from here.
Start(syms, thrs) ==
    /\ pc = "idle"
    /\ \E sym \in syms, thr \in thrs, button \in BOOLEAN :
        /\ ticker_symbol' = sym
        /\ drawdown_threshold' = thr
        /\ cache_market' = IF button THEN ClearedMarket ELSE cache_market
        /\ cache_fg' = IF button THEN NoFgEntry ELSE cache_fg
    /\ pc' = "market"
    /\ status' = "none"
    /\ src' = "none"
    /\ market_fetched' = 0
    /\ fg_called' = FALSE
    /\ fg_fetched' = 0
    /\ fg_payload' = NoPayload
    /\ hist' = NoFrame
    /\ fg_score' = PyNone
    /\ fg_rating' = PyNone
    /\ all_time_high' = 0
    /\ current_price' = 0
    /\ drawdown_percent' = NoDrawdown
    /\ action' = "none"
    /\ reasons' = << >>
    /\ UNCHANGED now

\* hist = get_market_data(ticker_symbol) returned h; then the guard
AfterMarket(h) ==
    /\ hist' = h
    /\ IF HistUnusable(h)
       THEN /\ status' = "error_shown"      \* st.error; return
            /\ pc' = "idle"
       ELSE /\ status' = status
            /\ pc' = "sentiment"

\* a fresh entry for the symbol: served from the store, the body does not run
CallMarketHit ==
    /\ pc = "market"
    /\ Fresh(cache_market[ticker_symbol], now)
    /\ AfterMarket(cache_market[ticker_symbol].value)
    /\ UNCHANGED <<now, cache_market, cache_fg, ticker_symbol,
                   drawdown_threshold, src, market_fetched, fg_called,
                   fg_fetched, fg_payload, fg_score, fg_rating, all_time_high,
                   current_price, drawdown_percent, action, reasons>>

\* no fresh entry: the body runs once against the source
CallMarketMiss(outcomes) ==
    /\ pc = "market"
    /\ ~Fresh(cache_market[ticker_symbol], now)
    /\ \E o \in outcomes :
        LET r == get_market_data(o) IN
        /\ src' = o.src
        /\ market_fetched' = market_fetched + 1
        /\ IF r.raised
           THEN /\ status' = "exception"     \* propagates out of main()
                /\ pc' = "idle"
                /\ UNCHANGED <<cache_market, hist>>
           ELSE /\ cache_market' =
                     [cache_market EXCEPT ![ticker_symbol] =
                        Store(r.value, now, empty(r.value))]
                /\ AfterMarket(r.value)
    /\ UNCHANGED <<now, cache_fg, ticker_symbol, drawdown_threshold,
                   fg_called, fg_fetched, fg_payload, fg_score, fg_rating,
                   all_time_high, current_price, drawdown_percent, action,
                   reasons>>

CallSentimentHit ==
    /\ pc = "sentiment"
    /\ Fresh(cache_fg, now)
    /\ fg_called' = TRUE
    /\ fg_score' = cache_fg.value.score
    /\ fg_rating' = cache_fg.value.rating
    /\ pc' = "metrics"
    /\ UNCHANGED <<now, cache_market, cache_fg, status, ticker_symbol,
                   drawdown_threshold, src, market_fetched, fg_fetched,
                   fg_payload, hist, all_time_high, current_price,
                   drawdown_percent, action, reasons>>

CallSentimentMiss(payloads) ==
    /\ pc = "sentiment"
    /\ ~Fresh(cache_fg, now)
    /\ \E p \in payloads :
        LET r == get_fear_and_greed_index(p) IN
        /\ fg_payload' = p
        /\ cache_fg' = Store(r, now, Unavailable(r))
        /\ fg_score' = r.score
        /\ fg_rating' = r.rating
    /\ fg_called' = TRUE
    /\ fg_fetched' = fg_fetched + 1
    /\ pc' = "metrics"
    /\ UNCHANGED <<now, cache_market, status, ticker_symbol,
                   drawdown_threshold, src, market_fetched, hist,
                   all_time_high, current_price, drawdown_percent, action,
                   reasons>>

\* lines 117-130: the metrics, then the four st.metric cells; the second
\* reads hist['Close'].iloc[-2], an IndexError on a frame of one row
Metrics ==
    /\ pc = "metrics"
    /\ IF empty(hist)
       THEN /\ status' = "index_error"       \* iloc[-1] of an empty column
            /\ pc' = "idle"
            /\ UNCHANGED <<all_time_high, current_price, drawdown_percent>>
       ELSE /\ all_time_high' = MaxHigh(hist)
            /\ current_price' = LastClose(hist)
            /\ drawdown_percent' = Drawdown(MaxHigh(hist), LastClose(hist))
            /\ IF HasPreviousClose(hist)
               THEN /\ pc' = "decide"
                    /\ status' = status
               ELSE /\ pc' = "idle"
                    /\ status' = "index_error"
    /\ UNCHANGED <<now, cache_market, cache_fg, ticker_symbol,
                   drawdown_threshold, src, market_fetched, fg_called,
                   fg_fetched, fg_payload, hist, fg_score, fg_rating, action,
                   reasons>>

\* lines 135-147
Decide ==
    /\ pc = "decide"
    /\ LET rec == Recommendation(drawdown_percent, drawdown_threshold,
                                 fg_score, fg_rating) IN
        /\ action' = rec.action
        /\ reasons' = rec.reasons
    /\ status' = "recommended"
    /\ pc' = "idle"
    /\ UNCHANGED <<now, cache_market, cache_fg, ticker_symbol,
                   drawdown_threshold, src, market_fetched, fg_called,
                   fg_fetched, fg_payload, hist, fg_score, fg_rating,
                   all_time_high, current_price, drawdown_percent>>

\* the clock of the cache's timer
ClockSteps == {TTL \div 2 - 1, TTL \div 2 + 1}

MaxClock == MaxTicks * (TTL \div 2 + 1)

Tick(steps) ==
    /\ \E d \in steps :
        /\ now + d <= MaxClock
        /\ now' = now + d
    /\ UNCHANGED <<cache_market, cache_fg, pc, status, ticker_symbol,
                   drawdown_threshold, src, market_fetched, fg_called,
                   fg_fetched, fg_payload, hist, fg_score, fg_rating,
                   all_time_high, current_price, drawdown_percent, action,
                   reasons>>

\* Script runs over the whole input domain (two of the three indices selected),
\* the clock at rest.
SelectedSymbols == {"^GSPC", "^IXIC"}

Next ==
    \/ Start(SelectedSymbols, Thresholds)
    \/ CallMarketHit
    \/ CallMarketMiss(MarketOutcomes(Frames))
    \/ CallSentimentHit
    \/ CallSentimentMiss(Payloads)
    \/ Metrics
    \/ Decide

Spec == Init /\ [][Next]_vars

\* Script runs with the clock moving, over one usable frame, the empty frame,
\* one good payload and one failed request.
CacheFrames == {NoFrame, <<[High |-> 10, Close |-> 9], [High |-> 10, Close |-> 9]>>}

CachePayloads ==
    {Payload("network_error", "none", JMissing, JMissing),
     OkPayload(JNum10(200), JStr("greed"))}

NextCache ==
    \/ Start(Symbols, {10})
    \/ CallMarketHit
    \/ CallMarketMiss(MarketOutcomes(CacheFrames))
    \/ CallSentimentHit
    \/ CallSentimentMiss(CachePayloads)
    \/ Metrics
    \/ Decide
    \/ Tick(ClockSteps)

SpecCache == Init /\ [][NextCache]_vars

---------------------------------------------------------------------------
(* Properties *)

\* the run has a value back from get_market_data
MarketReturned ==
    /\ pc # "market"
    /\ ~(pc = "idle" /\ status \in {"none", "exception"})

\* lines 117-121 ran in this run
MetricsComputed == pc = "decide" \/ status \in {"index_error", "recommended"}

RunEnded == pc = "idle" /\ status # "none"

\* C1: a get_market_data(symbol) call that finds an entry for the symbol,
\* stored less than TTL seconds ago and not cleared since, does not run the
\* underlying fetch and returns the stored value; a call that finds no entry
\* (never stored, or cleared) or an entry aged TTL or more runs the fetch
\* exactly once, and what it returns is stored with the current time.
C1_FetchOncePerTtlWindow ==
    [][ (pc = "market" /\ pc' # "market") =>
          LET e == cache_market[ticker_symbol] IN
          IF e.present /\ now - e.stored < TTL
          THEN /\ market_fetched' = market_fetched
               /\ hist' = e.value
               /\ cache_market' = cache_market
          ELSE /\ market_fetched' = market_fetched + 1
               /\ (status' # "exception" =>
                     cache_market'[ticker_symbol] =
                        [present |-> TRUE, value |-> hist', stored |-> now])
      ]_vars

\* a second call served from an entry stored earlier
C1_Witness ==
    /\ pc = "sentiment"
    /\ market_fetched = 0
    /\ cache_market[ticker_symbol].present
    /\ now - cache_market[ticker_symbol].stored \in 1..(TTL - 1)
    /\ hist = cache_market[ticker_symbol].value

\* C2: the recommendation is the three-branch rule over drawdown_pct,
\* threshold_pct and the sentiment reading: BUY with the drawdown reason when
\* drawdown_pct >= threshold_pct (equality included), the corroboration
\* reason added exactly when the score is an integer <= 25; otherwise BUY
\* with the extreme-fear reason alone when the score is an integer <= 25;
\* otherwise HOLD with the below-threshold reason and then the label.
C2_ThreeBranchRule ==
    status = "recommended" =>
        LET met  == drawdown_percent.num >= drawdown_threshold * drawdown_percent.den
            fear == fg_score.tag = "int" /\ fg_score.n <= 25
        IN  /\ drawdown_percent.num = (all_time_high - current_price) * 100
            /\ drawdown_percent.den = all_time_high
            /\ met =>
                /\ action = "BUY"
                /\ reasons[1].msg = "drawdown_met"
                /\ Len(reasons) = (IF fear THEN 2 ELSE 1)
                /\ fear => reasons[2].msg = "extra_extreme_fear"
            /\ (~met /\ fear) =>
                /\ action = "BUY"
                /\ reasons = <<[msg |-> "extreme_fear", arg |-> ""]>>
            /\ (~met /\ ~fear) =>
                /\ action = "HOLD"
                /\ reasons = <<[msg |-> "below_threshold", arg |-> ""],
                               [msg |-> "current_sentiment", arg |-> fg_rating.s]>>

\* the boundary: drawdown exactly at the threshold, no fear signal
C2_Witness ==
    /\ status = "recommended"
    /\ drawdown_percent.num = drawdown_threshold * drawdown_percent.den
    /\ fg_score.tag = "int"
    /\ fg_score.n > 25
    /\ action = "BUY"

\* C3: with the unavailable marker "N/A" as the score and the drawdown below
\* the threshold, no run shows BUY, and the recommendation made is HOLD.
C3_UnavailableNeverBuys ==
    (/\ fg_called
     /\ fg_score = NA
     /\ drawdown_percent.num < drawdown_threshold * drawdown_percent.den) =>
        /\ action # "BUY"
        /\ status = "recommended" => action = "HOLD"

C3_Witness ==
    /\ status = "recommended"
    /\ fg_score = NA
    /\ drawdown_percent.num < drawdown_threshold * drawdown_percent.den
    /\ action = "HOLD"

\* the outcomes of the HTTP request that the claim C4 lists
FailedRequest(p) ==
    \/ p.http \in HttpFailures
    \/ p.http = "ok" /\ p.shape # "fg"
    \/ p.http = "ok" /\ p.score.tag \in {"missing", "null"}
    \/ p.http = "ok" /\ p.score.tag = "str" /\ p.score.s \notin DOMAIN IntLiteral
    \/ p.http = "ok" /\ p.rating.tag # "str"

\* C4: whatever goes wrong with the request, get_fear_and_greed_index returns
\* the unavailable reading, and the run goes on to make its recommendation.
C4_SentimentFailureStillDecides ==
    (RunEnded /\ fg_fetched = 1 /\ FailedRequest(fg_payload)) =>
        /\ fg_score = NA
        /\ fg_rating.s \in {"fetch_failed", "process_failed"}
        /\ status = "recommended"

\* C5: when the source is unreachable or has no data, get_market_data
\* returns an empty frame, raises nothing and has asked the source once.
C5_EmptyNeverRaises ==
    (pc # "market" /\ market_fetched >= 1 /\ src \in {"no_data", "unreachable"}) =>
        /\ status # "exception"
        /\ empty(hist)
        /\ market_fetched = 1

\* C6: once get_market_data has returned an empty frame the run shows the
\* error and is over: the sentiment provider is never called, no metric is
\* computed and no recommendation is made.
C6_EmptyFrameStopsRun ==
    (MarketReturned /\ empty(hist)) =>
        /\ pc = "idle"
        /\ status = "error_shown"
        /\ ~fg_called
        /\ fg_fetched = 0
        /\ ~MetricsComputed
        /\ all_time_high = 0
        /\ drawdown_percent = NoDrawdown
        /\ action = "none"
        /\ reasons = << >>

C6_Witness ==
    /\ status = "error_shown"
    /\ market_fetched = 1
    /\ src = "unreachable"
    /\ empty(hist)

\* C7 as stated: for every non-empty price series the computed drawdown is
\* >= 0, that is all_time_high >= current_price.
C7_DrawdownNonNegative ==
    (MetricsComputed /\ ~empty(hist)) =>
        /\ drawdown_percent.num >= 0
        /\ all_time_high >= current_price

\* C7 amended: for every non-empty price series whose last record has
\* High >= Close, drawdown_pct = (max High - last Close) / max High * 100
\* is >= 0.
C7_DrawdownNonNegativeWellFormed ==
    (/\ MetricsComputed
     /\ ~empty(hist)
     /\ hist[Len(hist)].High >= hist[Len(hist)].Close) =>
        /\ drawdown_percent.den > 0
        /\ drawdown_percent.num >= 0
        /\ all_time_high >= current_price
        /\ \A i \in 1..Len(hist) : all_time_high >= hist[i].High

\* the all-time high lies before the last record
C7_Witness ==
    /\ status = "recommended"
    /\ Len(hist) = 2
    /\ hist[1].High > hist[2].High
    /\ hist[2].High >= hist[2].Close
    /\ all_time_high = hist[1].High
    /\ drawdown_percent.num > 0

\* C8: a run over a series of one record ends with a recommendation (or the
\* shown error), not with an exception.
C8_SingleRecordGuarded ==
    (RunEnded /\ Len(hist) = 1) => status \in {"recommended", "error_shown"}

FiveLabels == {"zh_extreme_fear", "zh_fear", "zh_neutral", "zh_greed",
               "zh_extreme_greed"}

FailureLabels == {"fetch_failed", "process_failed"}

C10_FailuresAreCached ==
    [][ /\ (pc = "market" /\ pc' # "market") =>
            LET e == cache_market[ticker_symbol] IN
            /\ (e.present /\ now - e.stored < TTL /\ Len(e.value) = 0) =>
                  /\ market_fetched' = market_fetched
                  /\ src' = "none"
                  /\ hist' = << >>
                  /\ status' = "error_shown"
            /\ (market_fetched' = market_fetched + 1 /\ status' = "error_shown") =>
                  cache_market'[ticker_symbol] =
                     [present |-> TRUE, value |-> << >>, stored |-> now]
        /\ (pc = "sentiment" /\ pc' # "sentiment") =>
            /\ (/\ cache_fg.present
                /\ now - cache_fg.stored < TTL
                /\ cache_fg.value.score = NA) =>
                  /\ fg_fetched' = fg_fetched
                  /\ fg_payload' = NoPayload
                  /\ fg_score' = NA
                  /\ fg_rating' = cache_fg.value.rating
            /\ (fg_fetched' = fg_fetched + 1 /\ fg_score' = NA) =>
                  cache_fg' = [present |-> TRUE,
                               value |-> [score |-> NA, rating |-> fg_rating'],
                               stored |-> now]
      ]_vars

\* a later run is handed the stored unavailable reading
C10_Witness ==
    /\ fg_called
    /\ fg_fetched = 0
    /\ fg_score = NA
    /\ cache_fg.present
    /\ now - cache_fg.stored \in 1..(TTL - 1)

====
